---- MODULE Spec2Model ----
(***************************************************************************)
(* Model of btmnr: the configuration store of config.rs (Config,           *)
(* ConfigManager and its file watcher thread) and the monitoring loop of   *)
(* main.rs (BluetoothManager::monitor_audio_activity).                     *)
(*                                                                         *)
(* Strings are tuples of one-character strings, so that len() and          *)
(* contains() are computed as the code computes them.  Time is counted in  *)
(* whole seconds.                                                          *)
(***************************************************************************)
EXTENDS Integers, Sequences, FiniteSets, TLC

VARIABLES
    file,            \* contents of config.json
    event,           \* a debounced change notification is waiting in rx
    current_config,  \* ConfigManager.current_config (value behind the RwLock)
    backup_config,   \* ConfigManager.backup_config (value behind the RwLock)
    current_lock,    \* RwLock state of current_config: [writer, readers]
    backup_lock,     \* RwLock state of backup_config: [writer, readers]
    wpc,             \* position of the watcher thread
    new_config,      \* watcher local: the Ok value of Config::load()
    attempt,         \* history: the reload attempt the watcher handled last
    everLoaded,      \* history: some Config::load() has returned Ok
    running,         \* BluetoothManager.running (AtomicBool)
    handler_running, \* the `running` that main's event_handler captures
    pc,              \* position of monitor_audio_activity
    config,          \* loop local: snapshot returned by get_config()
    elapsed,         \* last_activity.elapsed() in seconds; MaxElapsed: that or more
    consecutive_errors, \* loop local counter
    tick,            \* history: what the tick in progress (or just ended) did
    failRun,         \* history: failing ticks since the last successful tick
                     \* (exact up to 6; beyond, 4..6 with the same remainder by 3)
    arg,             \* the Config a caller passes to save()
    ret,             \* the result of the last direct load() / save() call
    getters          \* position of each thread that calls get_config() directly

vars == <<file, event, current_config, backup_config, current_lock,
          backup_lock, wpc, new_config, attempt, everLoaded, running,
          handler_running, pc, config, elapsed, consecutive_errors, tick, failRun, arg, ret,
          getters>>

storeVars == <<file, event, current_config, backup_config, current_lock,
               backup_lock, wpc, new_config, attempt, everLoaded>>

loopVars == <<running, handler_running, pc, config, elapsed, consecutive_errors,
              tick, failRun>>

callVars == <<arg, ret, getters>>

----------------------------------------------------------------------------
(* Bounds *)

\* threads that call get_config() on the shared ConfigManager
NumCallers == 2

\* last_activity.elapsed() is exact below this many seconds; the value
\* MaxElapsed itself stands for "MaxElapsed seconds or more"
MaxElapsed == 4

----------------------------------------------------------------------------
(* Program constants *)

BackoffThreshold == 3

BackoffSecs == 30

TickSecs == 1

AddressLen == 17

DefaultTimeout == 300

----------------------------------------------------------------------------
(* Strings *)

Digits == <<"0", "1", "2", "3", "4", "5", "6", "7", "8", "9">>

DigitSet == {Digits[i] : i \in 1..10}

HexUpper == DigitSet \cup {"A", "B", "C", "D", "E", "F"}

\* str::contains(c) for a one-character pattern
Contains(s, c) == \E i \in 1..Len(s) : s[i] = c

AddrUpper == <<"A","A",":","B","B",":","C","C",":","D","D",":","E","E",":","F","F">>

AddrOther == <<"0","1",":","2","3",":","4","5",":","6","7",":","8","9",":","A","B">>

AddrPlaceholder == <<"X","X",":","X","X",":","X","X",":","X","X",":","X","X",":","X","X">>

AddrLower == <<"a","a",":","b","b",":","c","c",":","d","d",":","e","e",":","f","f">>

AddrNoColon == <<"A","A","B","B","C","C","D","D","E","E","F","F","0","0","1","1","2">>

AddrShort == <<"A","A",":","B","B",":","C","C",":","D","D",":","E","E",":","F">>

AddrLong == <<"A","A",":","B","B",":","C","C",":","D","D",":","E","E",":","F","F",":">>

AddrMisplaced == <<":","A","A","B","B","C","C","D","D","E","E","F","F","0","0","1","1">>

AddrQuote == <<"A","A",":","B","B",":","C","C",":","D","D",":","E","E",":","\"","F">>

AddrEmpty == << >>

\* the canonical form of the specification's data model: six pairs of
\* uppercase hexadecimal digits separated by colons
IsCanonical(s) ==
    /\ Len(s) = AddressLen
    /\ \A i \in 1..Len(s) :
          IF i % 3 = 0 THEN s[i] = ":" ELSE s[i] \in HexUpper

----------------------------------------------------------------------------
(* Config *)

\* impl Default for Config
Config_default ==
    [inactivity_timeout |-> DefaultTimeout,
     auto_connect       |-> TRUE,
     device_address     |-> AddrPlaceholder]

\* a local that holds no Config (not yet bound, moved out, or dropped)
NoConfig ==
    [inactivity_timeout |-> 0, auto_connect |-> FALSE, device_address |-> AddrEmpty]

Ok(v) == [ok |-> TRUE, val |-> v]

Err(e) == [ok |-> FALSE, err |-> e]

\* Config::validate
validate(c) ==
    IF c.inactivity_timeout = 0
    THEN Err("inactivity_timeout must be greater than 0")
    ELSE IF ~Contains(c.device_address, ":") \/ Len(c.device_address) # AddressLen
    THEN Err("Invalid device address format")
    ELSE Ok(TRUE)

----------------------------------------------------------------------------
(* config.json and serde_json *)

RECURSIVE DigitsValue(_)
\* value of a sequence of decimal digits
DigitsValue(d) ==
    IF d = << >> THEN 0
    ELSE 10 * DigitsValue(SubSeq(d, 1, Len(d) - 1))
         + (CHOOSE k \in 0..9 : Digits[k + 1] = d[Len(d)])

\* serde_json reading a JSON number into a u64: digits only, no sign, no
\* leading zero; -1 stands for the parse error
ParseU64(d) ==
    IF d = << >> \/ (\E i \in 1..Len(d) : d[i] \notin DigitSet) THEN -1
    ELSE IF Len(d) > 1 /\ d[1] = "0" THEN -1
    ELSE DigitsValue(d)

\* a u64 written as its last digit only
FormatU64_LastDigit(n) == <<Digits[(n % 10) + 1]>>

RECURSIVE FormatU64(_)
\* serde_json writing a u64 as a JSON number
FormatU64(n) ==
    IF n < 10 THEN <<Digits[n + 1]>>
    ELSE FormatU64(n \div 10) \o <<Digits[(n % 10) + 1]>>

RECURSIVE JsonEscape(_)
\* serde_json writing the body of a JSON string: quote and backslash escaped
JsonEscape(s) ==
    IF s = << >> THEN << >>
    ELSE (IF Head(s) \in {"\"", "\\"} THEN <<"\\", Head(s)>> ELSE <<Head(s)>>)
         \o JsonEscape(Tail(s))

RECURSIVE JsonUnescapeOk(_)
\* the body of a JSON string is well formed: no bare quote, every backslash
\* is followed by a quote or a backslash
JsonUnescapeOk(s) ==
    IF s = << >> THEN TRUE
    ELSE IF Head(s) = "\\"
         THEN Len(s) >= 2 /\ s[2] \in {"\"", "\\"} /\ JsonUnescapeOk(Tail(Tail(s)))
    ELSE Head(s) # "\"" /\ JsonUnescapeOk(Tail(s))

RECURSIVE JsonUnescape(_)
\* serde_json reading the body of a well-formed JSON string
JsonUnescape(s) ==
    IF s = << >> THEN << >>
    ELSE IF Head(s) = "\\" THEN <<s[2]>> \o JsonUnescape(Tail(Tail(s)))
    ELSE <<Head(s)>> \o JsonUnescape(Tail(s))

\* config.json: absent, text that is no JSON object of the three fields, or
\* an object whose three values are kept as the tokens written in the file
FileMissing ==
    [kind |-> "missing", inactivity_timeout |-> << >>, auto_connect |-> "",
     device_address |-> << >>]

FileGarbage ==
    [kind |-> "garbage", inactivity_timeout |-> << >>, auto_connect |-> "",
     device_address |-> << >>]

FileJson(t, b, a) ==
    [kind |-> "json", inactivity_timeout |-> t, auto_connect |-> b,
     device_address |-> a]

\* serde_json::to_string_pretty(self)
to_string_pretty(c) ==
    FileJson(FormatU64(c.inactivity_timeout),
             IF c.auto_connect THEN "true" ELSE "false",
             JsonEscape(c.device_address))

\* serde_json::from_str::<Config>(&config_str)
from_str(f) ==
    IF f.kind # "json" THEN Err("Failed to parse config")
    ELSE IF ParseU64(f.inactivity_timeout) < 0 THEN Err("Failed to parse config")
    ELSE IF f.auto_connect \notin {"true", "false"} THEN Err("Failed to parse config")
    ELSE IF ~JsonUnescapeOk(f.device_address) THEN Err("Failed to parse config")
    ELSE Ok([inactivity_timeout |-> ParseU64(f.inactivity_timeout),
             auto_connect       |-> (f.auto_connect = "true"),
             device_address     |-> JsonUnescape(f.device_address)])

\* Config::load, reading the file contents f
load(f) ==
    IF f.kind = "missing" THEN Err("Failed to read config file")
    ELSE IF ~from_str(f).ok THEN from_str(f)
    ELSE IF ~validate(from_str(f).val).ok THEN validate(from_str(f).val)
    ELSE Ok(from_str(f).val)

\* Config::save: the result, and the file contents it leaves
save(c) ==
    IF ~validate(c).ok THEN validate(c) ELSE Ok(TRUE)

save_file(c, f) ==
    IF ~validate(c).ok THEN f ELSE to_string_pretty(c)

----------------------------------------------------------------------------
(* Inputs *)

FileP1 == FileJson(<<"2">>, "true", AddrUpper)

FileP2 == FileJson(<<"1">>, "false", AddrOther)

FileLower == FileJson(<<"2">>, "true", AddrLower)

\* what config.json may hold when the service starts
InitFiles == {FileMissing, FileP1}

\* what an external edit may leave in config.json
EditFiles == {FileGarbage, FileP2, FileLower}

Unlocked == [writer |-> FALSE, readers |-> 0]

NoAttempt == [outcome |-> "none", pre |-> NoConfig, bak |-> NoConfig, new |-> NoConfig]

NoCall ==
    [op |-> "none", ok |-> TRUE, val |-> NoConfig, before |-> FileMissing,
     prior |-> "none"]

NoTick ==
    [sensed |-> "none", connects |-> 0, disconnects |-> 0, failed |-> FALSE,
     backoff |-> FALSE, idle |-> 0]

----------------------------------------------------------------------------
(* ConfigManager *)

Callers == 1..NumCallers

\* a thread that is not inside get_config() and has not called it yet
NoGet == [at |-> "idle"]

\* ConfigManager::new: Config::load().unwrap_or_default() into both cells
ConfigManager_new(f) == IF load(f).ok THEN load(f).val ELSE Config_default

\* the external world rewrites config.json; notify queues a (debounced) event
EditFile ==
    /\ \E f \in EditFiles : file' = f
    /\ event' = TRUE
    /\ UNCHANGED <<current_config, backup_config, current_lock, backup_lock,
                   wpc, new_config, attempt, everLoaded>>
    /\ UNCHANGED loopVars
    /\ UNCHANGED callVars

\* rx.recv() returns Ok(_) and Config::load() runs
WatcherRecv ==
    /\ wpc = "recv"
    /\ event
    /\ event' = FALSE
    /\ IF load(file).ok
       THEN /\ new_config' = load(file).val
            /\ wpc' = "ok_lock_current"
            /\ everLoaded' = TRUE
            /\ attempt' = [outcome |-> "loading", pre |-> current_config,
                           bak |-> backup_config, new |-> load(file).val]
       ELSE /\ new_config' = NoConfig
            /\ wpc' = "err_lock_backup"
            /\ everLoaded' = everLoaded
            /\ attempt' = [outcome |-> "failing", pre |-> current_config,
                           bak |-> backup_config, new |-> NoConfig]
    /\ UNCHANGED <<file, current_config, backup_config, current_lock, backup_lock>>
    /\ UNCHANGED loopVars
    /\ UNCHANGED callVars

\* write() taking its guard while read guards are out
CanWrite_OverReaders(l) == ~l.writer

\* write() may take its guard
CanWrite(l) == ~l.writer /\ l.readers = 0

\* Ok arm: let mut current = config_clone.write().unwrap();
WatcherOkLockCurrent ==
    /\ wpc = "ok_lock_current"
    /\ CanWrite(current_lock)
    /\ current_lock' = [current_lock EXCEPT !.writer = TRUE]
    /\ wpc' = "ok_lock_backup"
    /\ UNCHANGED <<file, event, current_config, backup_config, backup_lock,
                   new_config, attempt, everLoaded>>
    /\ UNCHANGED loopVars
    /\ UNCHANGED callVars

\* Ok arm: let mut backup = backup_clone.write().unwrap();
WatcherOkLockBackup ==
    /\ wpc = "ok_lock_backup"
    /\ CanWrite(backup_lock)
    /\ backup_lock' = [backup_lock EXCEPT !.writer = TRUE]
    /\ wpc' = "ok_swap"
    /\ UNCHANGED <<file, event, current_config, backup_config, current_lock,
                   new_config, attempt, everLoaded>>
    /\ UNCHANGED loopVars
    /\ UNCHANGED callVars

\* the Ok arm with its two assignments in the other order
SwapBackup_AfterCurrent(cur, new) == new

\* the two assignments of the Ok arm, as values
SwapBackup(cur, new) == cur

SwapCurrent(cur, new) == new

\* Ok arm: *backup = current.clone(); *current = new_config; guards dropped
WatcherOkSwap ==
    /\ wpc = "ok_swap"
    /\ current_lock.writer /\ backup_lock.writer
    /\ backup_config' = SwapBackup(current_config, new_config)
    /\ current_config' = SwapCurrent(current_config, new_config)
    /\ current_lock' = [current_lock EXCEPT !.writer = FALSE]
    /\ backup_lock' = [backup_lock EXCEPT !.writer = FALSE]
    /\ new_config' = NoConfig
    /\ attempt' = [attempt EXCEPT !.outcome = "ok"]
    /\ wpc' = "recv"
    /\ UNCHANGED <<file, event, everLoaded>>
    /\ UNCHANGED loopVars
    /\ UNCHANGED callVars

\* Err arm: let backup = backup_clone.read().unwrap();
WatcherErrLockBackup ==
    /\ wpc = "err_lock_backup"
    /\ ~backup_lock.writer
    /\ backup_lock' = [backup_lock EXCEPT !.readers = @ + 1]
    /\ wpc' = "err_lock_current"
    /\ UNCHANGED <<file, event, current_config, backup_config, current_lock,
                   new_config, attempt, everLoaded>>
    /\ UNCHANGED loopVars
    /\ UNCHANGED callVars

\* Err arm: let mut current = config_clone.write().unwrap();
WatcherErrLockCurrent ==
    /\ wpc = "err_lock_current"
    /\ CanWrite(current_lock)
    /\ current_lock' = [current_lock EXCEPT !.writer = TRUE]
    /\ wpc' = "err_restore"
    /\ UNCHANGED <<file, event, current_config, backup_config, backup_lock,
                   new_config, attempt, everLoaded>>
    /\ UNCHANGED loopVars
    /\ UNCHANGED callVars

\* the Err arm exchanging the cells as the Ok arm does
RestoreBackup_Exchanged(cur, bak) == cur

\* the values the Err arm leaves in the two cells (backup is only read)
RestoreCurrent(cur, bak) == bak

RestoreBackup(cur, bak) == bak

\* Err arm: *current = backup.clone(); guards dropped
WatcherErrRestore ==
    /\ wpc = "err_restore"
    /\ current_lock.writer /\ backup_lock.readers > 0
    /\ current_config' = RestoreCurrent(current_config, backup_config)
    /\ backup_config' = RestoreBackup(current_config, backup_config)
    /\ current_lock' = [current_lock EXCEPT !.writer = FALSE]
    /\ backup_lock' = [backup_lock EXCEPT !.readers = @ - 1]
    /\ attempt' = [attempt EXCEPT !.outcome = "err"]
    /\ wpc' = "recv"
    /\ UNCHANGED <<file, event, new_config, everLoaded>>
    /\ UNCHANGED loopVars
    /\ UNCHANGED callVars

Watcher ==
    \/ WatcherRecv
    \/ WatcherOkLockCurrent
    \/ WatcherOkLockBackup
    \/ WatcherOkSwap
    \/ WatcherErrLockBackup
    \/ WatcherErrLockCurrent
    \/ WatcherErrRestore

----------------------------------------------------------------------------
(* BluetoothManager: the monitoring loop.  The clock advances in the two    *)
(* sleeps only; the sensor and actuator calls take no time.                 *)

\* the clock reading d seconds later
Advance(e, d) == IF e + d >= MaxElapsed THEN MaxElapsed ELSE e + d

\* the comparison of a clock reading e with a timeout is decided by the
\* model: e is exact, or the timeout lies below the "or more" reading
Decided(e, timeout) == e < MaxElapsed \/ timeout < MaxElapsed

\* the history counter of consecutive failing ticks, one failing tick later
RunAfter(n) == IF n = 6 THEN 4 ELSE n + 1

\* the loop condition: self.running.load(Ordering::Relaxed)
LoopContinues(r) == r

\* while self.running.load(..) { ... }: enter the body or leave the loop
LoopTop ==
    /\ pc = "top"
    /\ IF LoopContinues(running)
       THEN /\ pc' = "get"
            /\ tick' = NoTick
       ELSE /\ pc' = "done"
            /\ tick' = tick
    /\ UNCHANGED <<running, handler_running, config, elapsed, consecutive_errors, failRun>>
    /\ UNCHANGED storeVars
    /\ UNCHANGED callVars

\* get_config may take its read guard
CanRead(l) == ~l.writer

\* get_config: self.current_config.read().unwrap()
GetConfigLock ==
    /\ pc = "get"
    /\ CanRead(current_lock)
    /\ current_lock' = [current_lock EXCEPT !.readers = @ + 1]
    /\ pc' = "clone"
    /\ UNCHANGED <<running, handler_running, config, elapsed, consecutive_errors, tick, failRun>>
    /\ UNCHANGED <<file, event, current_config, backup_config, backup_lock,
                   wpc, new_config, attempt, everLoaded>>
    /\ UNCHANGED callVars

\* a read guard that is never released
ReadUnlock_Leak(l) == l

\* the lock once a read guard is dropped
ReadUnlock(l) == [l EXCEPT !.readers = @ - 1]

\* get_config: .clone(), the read guard dropped at the end of the statement
GetConfigClone ==
    /\ pc = "clone"
    /\ config' = current_config
    /\ current_lock' = ReadUnlock(current_lock)
    /\ pc' = "sense"
    /\ UNCHANGED <<running, handler_running, elapsed, consecutive_errors, tick, failRun>>
    /\ UNCHANGED <<file, event, current_config, backup_config, backup_lock,
                   wpc, new_config, attempt, everLoaded>>
    /\ UNCHANGED callVars

\* the auto_connect test left out
ShouldConnect_Always(c) == TRUE

\* the auto_connect test negated
ShouldConnect_Negated(c) == ~c.auto_connect

\* if config.auto_connect
ShouldConnect(c) == c.auto_connect

\* the idle test with >= for >
Exceeds_AtTimeout(e, timeout) == e >= timeout

\* the idle test one second late
Exceeds_Late(e, timeout) == e > timeout + 1

\* last_activity.elapsed() > Duration::from_secs(config.inactivity_timeout)
Exceeds(e, timeout) == e > timeout

\* else if last_activity.elapsed() > ...: the answers the test can give; both
\* when the reading is "MaxElapsed or more" and the timeout is not below it
ShouldDisconnect(e, c) ==
    IF Decided(e, c.inactivity_timeout)
    THEN {Exceeds(e, c.inactivity_timeout)}
    ELSE BOOLEAN

\* the Ok arm without its reset
ErrorsAfter_Sticky(n, ok) == IF ok THEN n ELSE n + 1

\* a failure counted twice
ErrorsAfter_Double(n, ok) == IF ok THEN 0 ELSE n + 2

\* the arms of the match on the tick's result: the counter afterwards
ErrorsAfter(n, ok) == IF ok THEN 0 ELSE n + 1

\* the threshold test with > for >=
NeedsBackoff_Strict(n) == n > BackoffThreshold

\* if consecutive_errors >= 3
NeedsBackoff(n) == n >= BackoffThreshold

\* the Err arm leaving the loop (the error propagated with ?)
AfterTick_Propagate(n, ok) == IF ok THEN "sleep" ELSE "done"

\* where the loop goes once check_and_handle_audio has returned
AfterTick(n, ok) ==
    IF ~ok /\ NeedsBackoff(ErrorsAfter(n, ok)) THEN "backoff" ELSE "sleep"

\* check_and_handle_audio returns ok (Ok(_)) or not (Err(e)) with history t
Return(ok, t) ==
    /\ consecutive_errors' = ErrorsAfter(consecutive_errors, ok)
    /\ pc' = AfterTick(consecutive_errors, ok)
    /\ tick' = [t EXCEPT !.failed = ~ok]
    /\ failRun' = IF ok THEN 0 ELSE RunAfter(failRun)

\* a sensor error taken as "not playing" instead of leaving at the ?
Sensed_OrInactive(r) == IF r = "err" THEN "inactive" ELSE r

\* AudioMonitor::is_audio_playing()?: what the if sees for the sensor's
\* answer r; an Err leaves check_and_handle_audio at the ?
Sensed(r) == r

\* last_activity set before the branch on the answer, not inside it
ElapsedAfter_AnyAnswer(b, e) == IF b = "err" THEN e ELSE 0

\* *last_activity = Instant::now() in the active branch only: the reading of
\* last_activity.elapsed() once the branch for b is taken
ElapsedAfter(b, e) == IF b = "active" THEN 0 ELSE e

\* AudioMonitor::is_audio_playing()? and the branch taken on its answer
Sense ==
    /\ pc = "sense"
    /\ \E r \in {"err", "active", "inactive"} :
         LET t == [tick EXCEPT !.sensed = r, !.idle = elapsed]
             b == Sensed(r)
         IN
         /\ elapsed' = ElapsedAfter(b, elapsed)
         /\ CASE b = "err" ->
                   Return(FALSE, t)
              [] b = "active" ->
                   IF ShouldConnect(config)
                   THEN /\ pc' = "connect"
                        /\ tick' = t
                        /\ UNCHANGED <<consecutive_errors, failRun>>
                   ELSE Return(TRUE, t)
              [] b = "inactive" ->
                   \E d \in ShouldDisconnect(elapsed, config) :
                     IF d
                     THEN /\ pc' = "disconnect"
                          /\ tick' = t
                          /\ UNCHANGED <<consecutive_errors, failRun>>
                     ELSE Return(TRUE, t)
    /\ UNCHANGED <<running, handler_running, config>>
    /\ UNCHANGED storeVars
    /\ UNCHANGED callVars

\* self.ensure_connected().await?: the command is issued and succeeds or fails
Connect ==
    /\ pc = "connect"
    /\ \E ok \in BOOLEAN :
         Return(ok, [tick EXCEPT !.connects = @ + 1])
    /\ UNCHANGED <<running, handler_running, config, elapsed>>
    /\ UNCHANGED storeVars
    /\ UNCHANGED callVars

\* self.disconnect_device().await?: the command is issued and succeeds or fails
Disconnect ==
    /\ pc = "disconnect"
    /\ \E ok \in BOOLEAN :
         Return(ok, [tick EXCEPT !.disconnects = @ + 1])
    /\ UNCHANGED <<running, handler_running, config, elapsed>>
    /\ UNCHANGED storeVars
    /\ UNCHANGED callVars

\* tokio::time::sleep(Duration::from_secs(30)).await; consecutive_errors = 0;
Backoff ==
    /\ pc = "backoff"
    /\ elapsed' = Advance(elapsed, BackoffSecs)
    /\ consecutive_errors' = 0
    /\ tick' = [tick EXCEPT !.backoff = TRUE]
    /\ pc' = "sleep"
    /\ UNCHANGED <<running, handler_running, config, failRun>>
    /\ UNCHANGED storeVars
    /\ UNCHANGED callVars

\* tokio::time::sleep(Duration::from_secs(1)).await; end of the loop body
Sleep ==
    /\ pc = "sleep"
    /\ elapsed' = Advance(elapsed, TickSecs)
    /\ config' = NoConfig
    /\ pc' = "top"
    /\ UNCHANGED <<running, handler_running, consecutive_errors, tick, failRun>>
    /\ UNCHANGED storeVars
    /\ UNCHANGED callVars

\* event_handler: ServiceControl::Stop | ServiceControl::Shutdown stores
\* false in the `running` the closure captured in main.  BluetoothManager::new
\* builds its own Arc<AtomicBool> inside run_service and hands it to nobody,
\* so the captured flag is not the one the loop loads.
Stop ==
    /\ handler_running
    /\ handler_running' = FALSE
    /\ UNCHANGED <<running, pc, config, elapsed, consecutive_errors, tick, failRun>>
    /\ UNCHANGED storeVars
    /\ UNCHANGED callVars

Monitor ==
    \/ LoopTop
    \/ GetConfigLock
    \/ GetConfigClone
    \/ Sense
    \/ Connect
    \/ Disconnect
    \/ Backoff
    \/ Sleep

----------------------------------------------------------------------------
(* The service *)

\* run_service: BluetoothManager::new() has returned, the watcher thread is
\* waiting in rx.recv(), monitor_audio_activity is about to test its condition
Init ==
    /\ file \in InitFiles
    /\ event = FALSE
    /\ current_config = ConfigManager_new(file)
    /\ backup_config = ConfigManager_new(file)
    /\ current_lock = Unlocked
    /\ backup_lock = Unlocked
    /\ wpc = "recv"
    /\ new_config = NoConfig
    /\ attempt = NoAttempt
    /\ everLoaded = load(file).ok
    /\ running = TRUE
    /\ handler_running = TRUE
    /\ pc = "top"
    /\ config = NoConfig
    /\ elapsed = 0
    /\ consecutive_errors = 0
    /\ tick = NoTick
    /\ failRun = 0
    /\ arg = NoConfig
    /\ ret = NoCall
    /\ getters = [c \in Callers |-> NoGet]

Next ==
    \/ EditFile
    \/ Watcher
    \/ Monitor
    \/ Stop

Spec == Init /\ [][Next]_vars

----------------------------------------------------------------------------
(* Config::load and Config::save called directly, on any file and any Config *)

TimeoutTokens == {<<"0">>, <<"2">>, <<"3", "0", "0">>, <<"-", "1">>}

Timeouts == {0, 2, 300}

Addresses ==
    {AddrUpper, AddrOther, AddrPlaceholder, AddrLower, AddrNoColon, AddrShort,
     AddrLong, AddrMisplaced, AddrQuote}

CallFiles ==
    {FileMissing, FileGarbage}
    \cup {FileJson(t, b, JsonEscape(a)) :
            t \in TimeoutTokens, b \in {"true", "false"}, a \in Addresses}

CallConfigs ==
    [inactivity_timeout : Timeouts, auto_connect : BOOLEAN, device_address : Addresses]

\* what the call before this one was: a save() that returned Ok, or not
Prior(r) == IF r.op = "save" /\ r.ok THEN "saved" ELSE "other"

\* Config::load()
CallLoad ==
    /\ ret' = [op |-> "load", ok |-> load(file).ok,
               val |-> IF load(file).ok THEN load(file).val ELSE NoConfig,
               before |-> file, prior |-> Prior(ret)]
    /\ UNCHANGED <<arg, getters>>
    /\ UNCHANGED storeVars
    /\ UNCHANGED loopVars

\* arg.save()
CallSave ==
    /\ ret' = [op |-> "save", ok |-> save(arg).ok, val |-> arg, before |-> file,
               prior |-> Prior(ret)]
    /\ file' = save_file(arg, file)
    /\ event' = (event \/ save(arg).ok)
    /\ UNCHANGED <<arg, getters>>
    /\ UNCHANGED <<current_config, backup_config, current_lock, backup_lock,
                   wpc, new_config, attempt, everLoaded>>
    /\ UNCHANGED loopVars

InitCall ==
    /\ file \in CallFiles
    /\ arg \in CallConfigs
    /\ ret = NoCall
    /\ getters = [c \in Callers |-> NoGet]
    /\ event = FALSE
    /\ current_config = ConfigManager_new(file)
    /\ backup_config = ConfigManager_new(file)
    /\ current_lock = Unlocked
    /\ backup_lock = Unlocked
    /\ wpc = "recv"
    /\ new_config = NoConfig
    /\ attempt = NoAttempt
    /\ everLoaded = load(file).ok
    /\ running = TRUE
    /\ handler_running = TRUE
    /\ pc = "top"
    /\ config = NoConfig
    /\ elapsed = 0
    /\ consecutive_errors = 0
    /\ tick = NoTick
    /\ failRun = 0

NextCall ==
    \/ CallLoad
    \/ CallSave

SpecCall == InitCall /\ [][NextCall]_vars

----------------------------------------------------------------------------
(* get_config() called directly, by NumCallers threads, next to the watcher *)

\* the watcher is parked in write() on current_config
WriterParked == wpc \in {"ok_lock_current", "err_lock_current"}

\* a thread enters get_config()
GetCall(c) ==
    /\ getters[c].at = "idle"
    /\ getters' = [getters EXCEPT ![c].at = "waiting"]
    /\ UNCHANGED <<arg, ret>>
    /\ UNCHANGED storeVars
    /\ UNCHANGED loopVars

\* get_config: self.current_config.read().unwrap(); read() queues behind a
\* writer that is parked on the lock
GetLock(c) ==
    /\ getters[c].at = "waiting"
    /\ CanRead(current_lock)
    /\ ~WriterParked
    /\ current_lock' = [current_lock EXCEPT !.readers = @ + 1]
    /\ getters' = [getters EXCEPT ![c].at = "holding"]
    /\ UNCHANGED <<arg, ret>>
    /\ UNCHANGED <<file, event, current_config, backup_config, backup_lock,
                   wpc, new_config, attempt, everLoaded>>
    /\ UNCHANGED loopVars

\* get_config: .clone() returned, the read guard dropped
GetReturn(c) ==
    /\ getters[c].at = "holding"
    /\ current_lock' = ReadUnlock(current_lock)
    /\ getters' = [getters EXCEPT ![c].at = "idle"]
    /\ UNCHANGED <<arg, ret>>
    /\ UNCHANGED <<file, event, current_config, backup_config, backup_lock,
                   wpc, new_config, attempt, everLoaded>>
    /\ UNCHANGED loopVars

Getter ==
    \E c \in Callers : GetCall(c) \/ GetLock(c) \/ GetReturn(c)

NextStore ==
    \/ EditFile
    \/ Watcher
    \/ Getter

\* every thread keeps running; a thread waiting in read() gets the lock if it
\* is free again and again
StoreFair ==
    /\ WF_vars(Watcher)
    /\ \A c \in Callers : SF_vars(GetLock(c)) /\ WF_vars(GetReturn(c))

SpecStore == Init /\ [][NextStore]_vars /\ StoreFair

----------------------------------------------------------------------------
(* Properties *)

\* a Policy of the specification's data model: timeout above 0, address in
\* canonical form
PolicyValid(c) == c.inactivity_timeout > 0 /\ IsCanonical(c.device_address)

\* check_and_handle_audio has returned for the tick in progress
TickDone == pc \in {"backoff", "sleep"}

\* C1: once the watcher has handled a notification whose load() failed,
\* get() returns the policy it returned just before that attempt.
C1_Rollback ==
    (wpc = "recv" /\ attempt.outcome = "err") => current_config = attempt.pre

\* C2: a failed reload attempt leaves backup as it was before the attempt,
\* while the failure branch runs and after it.
C2_BackupUnchanged ==
    attempt.outcome \in {"failing", "err"} => backup_config = attempt.bak

C2_Witness ==
    /\ wpc = "recv"
    /\ attempt.outcome = "err"
    /\ attempt.pre # attempt.bak
    /\ backup_config = attempt.bak

C3_Swapped ==
    /\ attempt.outcome = "loading" =>
          current_config = attempt.pre /\ backup_config = attempt.bak
    /\ attempt.outcome = "ok" =>
          current_config = attempt.new /\ backup_config = attempt.pre
    /\ ~(current_lock.writer /\ current_lock.readers > 0)

C3_Get ==
    (pc = "clone" /\ pc' = "sense") =>
        /\ attempt.outcome = "loading" => config' = attempt.pre
        /\ attempt.outcome = "ok" => config' = attempt.new

\* C3: a successful reload of N over current = C leaves backup = C and
\* current = N; a get() during the reload returns C until the swap and N
\* after it, never anything else, and N until the next watcher event.
C3_SuccessfulReload == []C3_Swapped /\ [][C3_Get]_vars

C3_Witness ==
    /\ attempt.outcome = "ok"
    /\ attempt.new # attempt.pre
    /\ backup_config = attempt.pre
    /\ pc = "sense"
    /\ config = attempt.new

\* C4: backup passed validation, and between watcher events it is the
\* hardcoded default only if no load of config.json has ever succeeded.
C4_BackupValidated ==
    /\ validate(backup_config).ok
    /\ (wpc = "recv" /\ backup_config = Config_default) => ~everLoaded

\* C5: the policy get() returns is a fully valid Policy: timeout above 0 and
\* address of six colon-separated uppercase hex pairs.
C5_GetValid ==
    config # NoConfig => PolicyValid(config)

\* C6: load() returns no policy that is not fully valid, and save() of a
\* policy that is not fully valid fails and leaves config.json as it was.
C6_Validation ==
    /\ (ret.op = "load" /\ ret.ok) => PolicyValid(ret.val)
    /\ (ret.op = "save" /\ ~PolicyValid(ret.val)) => (~ret.ok /\ file = ret.before)

\* C7 as claimed: when a tick starts, the last tick backed off if and only if
\* it and the two ticks before it all failed, and the counter is then 0.
C7_BackoffEveryThree ==
    pc = "top" =>
        /\ failRun >= 3 => (tick.backoff /\ consecutive_errors = 0)
        /\ tick.backoff => failRun >= 3

\* C7: when a tick starts, the last tick backed off (slept the additional 30
\* seconds) if and only if it was the 3rd, 6th, 9th ... failing tick in a row,
\* that is the third since the last successful tick or the last backoff, and
\* the counter is then 0.
C7_Backoff ==
    pc = "top" =>
        /\ tick.backoff <=> (tick.failed /\ failRun > 0 /\ failRun % 3 = 0)
        /\ tick.backoff => consecutive_errors = 0

C7_Witness ==
    /\ pc = "top"
    /\ running
    /\ tick.backoff
    /\ failRun = 6
    /\ consecutive_errors = 0

\* C8 as claimed: a tick that finds the sensor inactive with the idle time
\* at or beyond the timeout issues exactly one disconnect.
C8_DisconnectAtTimeout ==
    (TickDone /\ tick.sensed = "inactive" /\ tick.idle >= config.inactivity_timeout)
        => tick.disconnects = 1

C8_Issued ==
    (TickDone /\ tick.sensed = "inactive" /\ tick.idle > config.inactivity_timeout)
        => tick.disconnects = 1

C8_TimerKept ==
    pc = "disconnect" => elapsed' = elapsed

\* C8: a tick that finds the sensor inactive with the idle time strictly
\* beyond the timeout issues exactly one disconnect, and the disconnect,
\* succeeding or failing, leaves the timer alone, so the next such tick
\* issues one again.
C8_IdleRepetition == []C8_Issued /\ [][C8_TimerKept]_vars

C8_Witness ==
    /\ pc = "sleep"
    /\ tick.sensed = "inactive"
    /\ tick.idle > config.inactivity_timeout
    /\ tick.idle < MaxElapsed
    /\ tick.disconnects = 1
    /\ failRun = 2

\* C9: a tick that finds the sensor active under a snapshot with
\* auto_connect set issues exactly one connect, whatever the earlier ticks
\* and the error counter were.
C9_ConnectOnActivity ==
    (TickDone /\ tick.sensed = "active" /\ config.auto_connect)
        => tick.connects = 1

C9_Witness ==
    /\ pc = "sleep"
    /\ tick.sensed = "active"
    /\ config.auto_connect
    /\ tick.connects = 1
    /\ tick.failed
    /\ failRun = 5

C10_Leaves ==
    (pc # "done" /\ pc' = "done") => (pc = "top" /\ ~running)

C10_Starts ==
    (pc = "top" /\ running /\ pc' # pc) => pc' = "get"

\* C10: the loop ends only from the top of an iteration with running false;
\* from the top with running true its next step starts another tick, after
\* any number of failing ticks and backoffs.
C10_ErrorsNeverTerminate == [][C10_Leaves /\ C10_Starts]_vars

C10_Witness ==
    /\ pc = "get"
    /\ running
    /\ failRun = 4

\* C11: once the control handler has handled a stop or shutdown, the flag
\* the loop reads is false.
C11_CooperativeStop ==
    ~handler_running => ~running

C12_HeldStable ==
    pc = "clone" => current_config' = current_config

C12_Whole ==
    (pc = "clone" /\ pc' = "sense") => config' = current_config

\* C12: while get() holds its read guard current is not written, and the
\* clone it returns is the whole value current holds at that instant, under
\* every interleaving with the watcher's swap and rollback.
C12_NoTornRead == [][C12_HeldStable /\ C12_Whole]_vars

C12_Witness ==
    /\ pc = "clone"
    /\ wpc = "ok_lock_current"
    /\ new_config # current_config
    /\ new_config.inactivity_timeout # current_config.inactivity_timeout
    /\ new_config.auto_connect # current_config.auto_connect
    /\ new_config.device_address # current_config.device_address

\* C13: save(P) of a fully valid P returns Ok, and a load() right after it
\* returns Ok with a policy equal to P.
C13_RoundTrip ==
    PolicyValid(arg) =>
        /\ ret.op = "save" => ret.ok
        /\ (ret.op = "load" /\ ret.prior = "saved") => (ret.ok /\ ret.val = arg)

C13_Witness ==
    /\ PolicyValid(arg)
    /\ arg.inactivity_timeout = 300
    /\ ret.op = "load"
    /\ ret.prior = "saved"
    /\ ret.val = arg
    /\ ret.before # FileMissing

C14_NoActuation ==
    (TickDone /\ tick.sensed = "err") =>
        /\ tick.connects = 0
        /\ tick.disconnects = 0
        /\ tick.failed
        /\ failRun > 0

C14_TimerKept ==
    (pc = "sense" /\ tick'.sensed = "err") =>
        (elapsed' = elapsed /\ pc' \in {"backoff", "sleep"})

\* C14: a tick whose sensor query fails leaves the timer as it was, issues
\* neither connect nor disconnect, and counts as a failing tick.
C14_SensorFailure == []C14_NoActuation /\ [][C14_TimerKept]_vars

C14_Witness ==
    /\ pc = "sleep"
    /\ tick.sensed = "err"
    /\ config # NoConfig
    /\ tick.idle > config.inactivity_timeout
    /\ tick.disconnects = 0
    /\ consecutive_errors = 1

\* C15: a disconnect is issued only on a tick that found the sensor inactive
\* with the idle time strictly beyond the snapshot's timeout (or with a
\* reading of "MaxElapsed or more" against a timeout not below it).
C15_DisconnectOnlyPastTimeout ==
    (pc \in {"disconnect", "backoff", "sleep"}
        /\ (pc = "disconnect" \/ tick.disconnects > 0)) =>
        /\ tick.sensed = "inactive"
        /\ \/ tick.idle > config.inactivity_timeout
           \/ ~Decided(tick.idle, config.inactivity_timeout)

C15_Witness ==
    /\ pc = "sleep"
    /\ tick.sensed = "inactive"
    /\ config # NoConfig
    /\ tick.idle = config.inactivity_timeout
    /\ tick.disconnects = 0

C16_Counted ==
    pc = "top" => consecutive_errors = failRun % 3

C16_Step ==
    (pc \in {"sense", "connect", "disconnect"} /\ pc' \in {"backoff", "sleep"}) =>
        IF tick'.failed
        THEN consecutive_errors' = consecutive_errors + 1
        ELSE consecutive_errors' = 0

\* C16: the step that ends a tick adds exactly 1 to the counter when the
\* tick failed and sets it to 0 when it did not, so at the top of the loop
\* the counter is the number of failing ticks since the last successful
\* tick, less the threes taken off by backoffs.
C16_Bookkeeping == []C16_Counted /\ [][C16_Step]_vars

C16_Witness ==
    /\ pc = "sleep"
    /\ tick.failed
    /\ tick.sensed = "err"
    /\ consecutive_errors = 2
    /\ failRun = 5

\* C17: the timer restarts on exactly the steps that find the sensor active;
\* every other step leaves last_activity alone, so that the elapsed time
\* only grows by the two sleeps.
C17_TimerUpdates ==
    [][ IF pc = "sense" /\ tick'.sensed = "active" THEN elapsed' = 0
        ELSE IF pc = "backoff" /\ pc' = "sleep"
             THEN elapsed' = Advance(elapsed, BackoffSecs)
        ELSE IF pc = "sleep" /\ pc' = "top"
             THEN elapsed' = Advance(elapsed, TickSecs)
        ELSE elapsed' = elapsed ]_vars

C17_Witness ==
    /\ pc = "sleep"
    /\ tick.sensed = "active"
    /\ tick.idle > 0
    /\ tick.connects = 1
    /\ tick.failed
    /\ elapsed = 0

C18_AtMostOne ==
    /\ tick.connects + tick.disconnects <= 1
    /\ (pc = "connect" \/ (TickDone /\ tick.connects > 0)) =>
          (tick.sensed = "active" /\ config.auto_connect)

C18_InOrder ==
    pc' # pc =>
        /\ pc' = "get" => pc = "top"
        /\ pc' = "sense" => pc = "clone"
        /\ pc' \in {"connect", "disconnect"} => pc = "sense"
        /\ pc' = "top" => pc = "sleep"

\* C18: a tick issues at most one command, a connect only with the sensor
\* active and auto_connect set in the snapshot, and a tick starts only from
\* the top of the loop, which is reached only from the end of the sleep.
C18_OneActuation == []C18_AtMostOne /\ [][C18_InOrder]_vars

C18_Witness ==
    /\ pc = "sleep"
    /\ tick.sensed = "active"
    /\ config # NoConfig
    /\ ~config.auto_connect
    /\ tick.connects = 0
    /\ tick.disconnects = 0

\* C20: the counter never exceeds 3, and it is 0, 1 or 2 at the top of every
\* loop iteration.
C20_CounterBounded ==
    /\ consecutive_errors \in 0..BackoffThreshold
    /\ pc = "top" => consecutive_errors \in 0..(BackoffThreshold - 1)

C20_Witness ==
    /\ pc = "backoff"
    /\ consecutive_errors = BackoffThreshold
    /\ failRun = 6

\* C19: the store cannot deadlock: every get_config() call that has started
\* returns, every reload the watcher has started (swap on the Ok arm,
\* restore on the Err arm) completes, and whenever a thread waits for a lock
\* its holder can take a step.
C19_NoWaitCycle ==
    /\ (WriterParked /\ ~CanWrite(current_lock)) =>
           \E c \in Callers : ENABLED GetReturn(c)
    /\ (\E c \in Callers : getters[c].at = "waiting") /\ ~WriterParked
           /\ ~CanRead(current_lock) => ENABLED Watcher
    /\ wpc \in {"ok_lock_backup", "err_lock_backup"} => ENABLED Watcher

\* no call stays inside get_config() for ever
C19_GetReturns ==
    \A c \in Callers : []<>(getters[c].at = "idle")

\* a reload in progress ends only as the arm it took: swap or restore
C19_ReloadEnds ==
    /\ attempt.outcome = "loading" => attempt'.outcome \in {"loading", "ok"}
    /\ attempt.outcome = "failing" => attempt'.outcome \in {"failing", "err"}

\* no reload stays in progress for ever
C19_ReloadCompletes ==
    []<>(attempt.outcome \notin {"loading", "failing"})

====
